---- MODULE Spec2Model ----
(***************************************************************************)
(* Presence service: coordinator (register / unregister / route), the      *)
(* shared Redis directory, the consistent-hash ring and the WebSocket      *)
(* presence node, modelled from src/src/coordinator/server.js,             *)
(* src/src/common/redis-client.js, src/src/common/config.js and            *)
(* src/unnamed/part_000 (consistent-hash.js).                              *)
(***************************************************************************)
EXTENDS Integers, Sequences, FiniteSets, TLC

(***************************************************************************)
(* Bounds of the model.                                                    *)
(***************************************************************************)
\* VNODE_COUNT the deployment is configured with (config.vnodeCount)
vnodeCount == 3
\* number of WebSocket connections a run opens against the presence nodes
MaxConns == 2
\* number of coordinator requests in flight in the interleaved specification
MaxReqs == 2
\* number of sessions whose events the bus specification follows
MaxSessions == 1
\* length of the event sequences that are replayed at a subscriber
MaxReplay == 2
\* DEFAULT_TTL of the directory keys, in clock ticks of the timed specification
T_own == 2

\* unregister requests that are handled step by step
MaxUnreg == 1
\* WebSockets one client creates
MaxSocks == 3
\* connect() calls of one client that await the /route answer at a time
MaxFetch == 2

(***************************************************************************)
(* Configuration.                                                          *)
(***************************************************************************)
None == "null"

Vnodes == 0 .. (vnodeCount - 1)

\* NODE_ID values of the two presence nodes; the coordinator is sent the
\* same strings as instanceId.
Nodes == {"node-1", "node-2"}

\* ASSIGNED_VNODES of each presence node (read once from the environment)
assignedVnodes == [n \in Nodes |-> IF n = "node-1" THEN <<0, 1>> ELSE <<1, 2>>]

\* weight values sent to /nodes/register
Weights == {1, 70, 100}

Users == {"u1", "u2", "u3", "u7"}

\* userIds asked of /route
RouteUsers == {"u1", "u3"}

\* first 8 hex digits of md5(userId), most significant first
md5hex8 ==
  [u \in Users |->
     CASE u = "u1" -> <<14, 4, 7, 7, 4, 12, 13, 13>>    \* e4774cdd
       [] u = "u2" -> <<2, 7, 0, 12, 1, 11, 0, 8>>      \* 270c1b08
       [] u = "u3" -> <<5, 3, 2, 10, 7, 11, 8, 14>>     \* 532a7b8e
       [] u = "u7" -> <<6, 11, 12, 14, 0, 5, 13, 15>>]  \* 6bce05df

Range(s) == {s[i] : i \in DOMAIN s}

\* decimal text of a vnode id, as a Redis hash field / JS object key
RECURSIVE ToStr(_)
ToStr(n) ==
  LET d == <<"0", "1", "2", "3", "4", "5", "6", "7", "8", "9">>
  IN  IF n < 10 THEN d[n + 1] ELSE ToStr(n \div 10) \o d[(n % 10) + 1]

\* the vnode id a key text denotes
ParseKey(s) == CHOOSE v \in 0 .. 1200 : ToStr(v) = s

(***************************************************************************)
(* ConsistentHash (src/unnamed/part_000).                                  *)
(***************************************************************************)
\* parseInt(hex8, 16) % count, evaluated digit by digit (Horner) so that no
\* intermediate value leaves the integer range of the checker
RECURSIVE HexMod(_, _, _)
HexMod(digits, acc, count) ==
  IF digits = <<>> THEN acc
  ELSE HexMod(Tail(digits), (acc * 16 + Head(digits)) % count, count)

\* variant: the last hex digit taken as the vnode id, without the modulo
getUserVnodeOfLastDigit(userId, count) == md5hex8[userId][Len(md5hex8[userId])]

getUserVnodeOf(userId, count) == HexMod(md5hex8[userId], 0, count)

getUserVnode(userId) == getUserVnodeOf(userId, vnodeCount)

\* a mapping object: a function from some vnode ids to instance ids
Lookup(map, k) == IF k \in DOMAIN map THEN map[k] ELSE None

getInstanceForVnode(map, vnodeId) == Lookup(map, vnodeId)

\* Object.assign(target, source)
ObjectAssign(target, source) ==
  [k \in DOMAIN target \cup DOMAIN source |->
     IF k \in DOMAIN source THEN source[k] ELSE target[k]]

updateVnodeMappings(map, vnodeMappings) == ObjectAssign(map, vnodeMappings)

setVnodeMapping(map, vnodeId, instanceId) ==
  ObjectAssign(map, [k \in {vnodeId} |-> instanceId])

\* { ...this.vnodeMap }
getVnodeMap(map) == map

EmptyMap == [k \in {} |-> None]

\* delete obj[k] for every k of keys
DeleteKeys(map, keys) == [k \in DOMAIN map \ keys |-> map[k]]

(***************************************************************************)
(* RedisClient (src/src/common/redis-client.js).                           *)
(***************************************************************************)
\* variant: a field that exists keeps its value (HSETNX)
hmsetKeepExisting(hash, mappings) == ObjectAssign(mappings, hash)

\* HMSET key field value ...; nothing is written for an empty object
hmset(hash, mappings) ==
  IF DOMAIN mappings = {} THEN hash ELSE ObjectAssign(hash, mappings)

\* variant: the pipeline does not refresh the TTL
expireKeep(remaining, mappings) == remaining

\* EXPIRE key ttl after the HMSET of the same pipeline; nothing is sent for
\* an empty object
expire(remaining, mappings) ==
  IF DOMAIN mappings = {} THEN remaining ELSE T_own

\* a hash whose last field is deleted is removed together with its TTL
afterHdel(remaining, hash) == IF DOMAIN hash = {} THEN 0 ELSE remaining

\* SETEX user:<userId> ttl instanceId
cacheUserInstance(cache, userId, instanceId) ==
  [cache EXCEPT ![userId] = instanceId]

\* variant: the lookup uses a key that is never set
getCachedUserInstanceMiss(cache, userId) == None

\* GET user:<userId>; null when the key is absent or expired
getCachedUserInstance(cache, userId) == cache[userId]

\* variant: only the first HDEL of the pipeline takes effect
hdelFirstOnly(hash, keys) ==
  DeleteKeys(hash, {k \in keys : \A o \in keys : k <= o})

\* HDEL of every field of keys
hdel(hash, keys) == DeleteKeys(hash, keys)


(***************************************************************************)
(* State.                                                                  *)
(***************************************************************************)
VARIABLES
  dirOwners,    \* Redis hash vnode:owners, vnode id -> instance id
  dirLoads,     \* Redis hash vnode:load, vnode id -> online count
  userCache,    \* Redis strings user:<userId>, userId -> instance id
  ring,         \* the coordinator's consistentHash.vnodeMap
  resp,         \* the HTTP response the coordinator sent last
  registered,   \* per instance, the vnode ids its 201 responses listed since
                \* it was last removed (unregister 200 or lease expiry)
  reqs,         \* coordinator requests handled with interleaving
  conns,        \* WebSocket connections made to the presence nodes
  clients,      \* per node, the clients map: userId -> connection
  onlineUsers,  \* per node, onlineUsers[vnodeId]: set of userIds
  bus,          \* messages produced to user_status_events, in order
  phase,        \* per node, how far start() / shutdown() of its process got
  offset,       \* per node, how many records of the topic its consumer took
  sent,         \* the frames the presence-node handler that ran last sent
  ttl,          \* remaining time to live of vnode:owners and vnode:load
                \* (0: the key does not exist)
  silent,       \* per instance, the time since the directory was last
                \* written by it or for it, counted up to T_own
  sdk           \* the fields of one RegistrationCenterClient, its sockets
                \* and its calls in flight

vars == <<dirOwners, dirLoads, userCache, ring, resp, registered, reqs,
          conns, clients, onlineUsers, bus, phase, offset, sent, ttl, silent,
          sdk>>

coordVars == <<dirOwners, dirLoads, userCache, ring, resp, registered>>
nodeVars == <<conns, clients, onlineUsers, bus, phase, offset, sent>>
leaseVars == <<ttl, silent>>
serverVars == <<coordVars, reqs, nodeVars, leaseVars>>

(***************************************************************************)
(* Client SDK (src/src/client/sdk.js): one RegistrationCenterClient.       *)
(***************************************************************************)
\* a fresh client: this.ws = null, status 'disconnected', no timer; socks
\* holds the readyState of every WebSocket the client has created ("none"
\* for one not created yet), pending counts the connect() calls that
\* await the /route answer, stopped tells that disconnect() was the last
\* call of the application
SdkInit ==
  [status |-> "disconnected", ws |-> 0,
   socks |-> [s \in 1 .. MaxSocks |-> "none"],
   reconnectTimer |-> FALSE, heartbeatTimer |-> FALSE,
   pending |-> 0, stopped |-> FALSE]

\* connect() up to "await this._getOptimalInstance()"
connectCall(c) ==
  IF c.status \in {"connecting", "connected"} THEN c
  ELSE [c EXCEPT !.status = "connecting", !.pending = @ + 1]

\* _scheduleReconnect(): clearTimeout, setTimeout(connect)
scheduleReconnect(c) == [c EXCEPT !.reconnectTimer = TRUE]

\* the application calls connect()
SdkConnect ==
  /\ connectCall(sdk).pending <= MaxFetch
  /\ sdk' = [connectCall(sdk) EXCEPT !.stopped = FALSE]
  /\ UNCHANGED serverVars

\* the reconnect timer fires and calls connect()
SdkTimer ==
  /\ sdk.reconnectTimer
  /\ connectCall(sdk).pending <= MaxFetch
  /\ sdk' = [connectCall(sdk) EXCEPT !.reconnectTimer = FALSE]
  /\ UNCHANGED serverVars

\* /route answers with an instance: connect() resumes, creates the
\* WebSocket, stores it in this.ws and installs the handlers
SdkRouteOk ==
  /\ sdk.pending > 0
  /\ \E s \in 1 .. MaxSocks :
       /\ sdk.socks[s] = "none"
       /\ \A b \in 1 .. (s - 1) : sdk.socks[b] # "none"
       /\ sdk' = [sdk EXCEPT !.pending = @ - 1, !.ws = s,
                             !.socks[s] = "CONNECTING"]
  /\ UNCHANGED serverVars

\* /route fails: the catch block of connect()
SdkRouteFail ==
  /\ sdk.pending > 0
  /\ sdk' = scheduleReconnect([sdk EXCEPT !.pending = @ - 1,
                                          !.status = "disconnected"])
  /\ UNCHANGED serverVars

\* onopen of a socket the client created
SockOpen(s) ==
  /\ sdk.socks[s] = "CONNECTING"
  /\ sdk' = [sdk EXCEPT !.socks[s] = "OPEN", !.status = "connected",
                        !.heartbeatTimer = TRUE]
  /\ UNCHANGED serverVars

\* onclose of a socket the client created: the connection failed, the
\* server closed it, or the closing handshake of ws.close() ended
SockClose(s) ==
  /\ sdk.socks[s] \in {"CONNECTING", "OPEN", "CLOSING"}
  /\ sdk' = scheduleReconnect([sdk EXCEPT !.socks[s] = "CLOSED",
                                          !.heartbeatTimer = FALSE,
                                          !.status = "disconnected"])
  /\ UNCHANGED serverVars

\* the application calls disconnect()
SdkDisconnect ==
  /\ sdk' = [sdk EXCEPT
        !.reconnectTimer = FALSE, !.heartbeatTimer = FALSE,
        !.socks = IF sdk.ws # 0
                  THEN [@ EXCEPT ![sdk.ws] =
                          IF @ \in {"OPEN", "CONNECTING"} THEN "CLOSING" ELSE @]
                  ELSE @,
        !.ws = 0, !.status = "disconnected", !.stopped = TRUE]
  /\ UNCHANGED serverVars

SdkNext ==
  \/ SdkConnect
  \/ SdkTimer
  \/ SdkRouteOk
  \/ SdkRouteFail
  \/ \E s \in 1 .. MaxSocks : SockOpen(s)
  \/ \E s \in 1 .. MaxSocks : SockClose(s)
  \/ SdkDisconnect

NoResp ==
  [op |-> "none", status |-> 0, error |-> None, instanceId |-> None,
   assignedVnodes |-> <<>>, removedVnodes |-> <<>>, userId |-> None,
   vnode |-> -1, instance |-> None, source |-> None]

ErrorResp(op, status, error) ==
  [NoResp EXCEPT !.op = op, !.status = status, !.error = error]

(***************************************************************************)
(* Coordinator: POST /nodes/register (server.js 39-86).                    *)
(***************************************************************************)
Max(a, b) == IF a >= b THEN a ELSE b

\* variant: the share is rounded up instead of down
desiredVnodesOfCeil(count, weight) == Max(1, (count * weight + 99) \div 100)

\* Math.max(1, Math.floor(count * weight / 100))
desiredVnodesOf(count, weight) == Max(1, (count * weight) \div 100)

desiredVnodes(weight) == desiredVnodesOf(vnodeCount, weight)

\* the loop "for i in 0..count-1: if (!currentVnodeMap[i]) push, break when
\* enough", from index i with the ids collected so far
RECURSIVE ScanFrom(_, _, _, _, _)
ScanFrom(i, count, currentVnodeMap, wanted, acc) ==
  IF i >= count THEN acc
  ELSE IF Lookup(currentVnodeMap, i) = None
       THEN IF Len(acc) + 1 >= wanted THEN Append(acc, i)
            ELSE ScanFrom(i + 1, count, currentVnodeMap, wanted, Append(acc, i))
       ELSE ScanFrom(i + 1, count, currentVnodeMap, wanted, acc)

\* variant: the scan does not look at the current owners
availableVnodesOfAnyId(count, currentVnodeMap, wanted) ==
  ScanFrom(0, count, EmptyMap, wanted, <<>>)

availableVnodesOf(count, currentVnodeMap, wanted) ==
  ScanFrom(0, count, currentVnodeMap, wanted, <<>>)

availableVnodes(currentVnodeMap, weight) ==
  availableVnodesOf(vnodeCount, currentVnodeMap, desiredVnodes(weight))

\* vnodeMappings[vnodeId] = instanceId for each chosen id
MappingsFor(ids, instanceId) == [v \in Range(ids) |-> instanceId]

\* variant: the handler answers 409 after it has written the assignment
RegisterRespConflict(instanceId, ids) ==
  ErrorResp("register", 409, "No available vnodes")

RegisterResp(instanceId, ids) ==
  [NoResp EXCEPT !.op = "register", !.status = 201,
                 !.instanceId = instanceId, !.assignedVnodes = ids]

\* the whole handler, run without another request in between
Register(instanceId, weight) ==
  /\ UNCHANGED <<dirLoads, userCache, reqs>> /\ UNCHANGED nodeVars
  /\ IF instanceId = None
     THEN /\ resp' = ErrorResp("register", 400, "instanceId is required")
          /\ UNCHANGED <<dirOwners, ring, ttl, silent>>
     ELSE LET ids == availableVnodes(dirOwners, weight)
          IN  IF Len(ids) = 0
              THEN /\ resp' = ErrorResp("register", 409, "No available vnodes")
                   /\ UNCHANGED <<dirOwners, ring, ttl, silent>>
              ELSE /\ dirOwners' = hmset(dirOwners, MappingsFor(ids, instanceId))
                   /\ ttl' = [ttl EXCEPT !.owners =
                               expire(@, MappingsFor(ids, instanceId))]
                   /\ silent' = [silent EXCEPT ![instanceId] = 0]
                   /\ ring' = updateVnodeMappings(ring, MappingsFor(ids, instanceId))
                   /\ resp' = RegisterResp(instanceId, ids)
  /\ UNCHANGED sdk

(***************************************************************************)
(* Coordinator: POST /nodes/unregister (server.js 89-131).                 *)
(***************************************************************************)
\* the ids of a set in ascending order (integer-like object keys enumerate
\* in ascending numeric order)
RECURSIVE Ascending(_)
Ascending(S) ==
  IF S = {} THEN <<>>
  ELSE LET m == CHOOSE x \in S : \A y \in S : x <= y
       IN  <<m>> \o Ascending(S \ {m})

\* Object.entries(map).filter(instance === instanceId).map(key): key texts
vnodesToRemove(currentVnodeMap, instanceId) ==
  LET ids == Ascending({v \in DOMAIN currentVnodeMap :
                          currentVnodeMap[v] = instanceId})
  IN  [i \in DOMAIN ids |-> ToStr(ids[i])]

KeyIds(keys) == {ParseKey(keys[i]) : i \in DOMAIN keys}

\* getVnodeMap(); delete copy[k] for each key; updateVnodeMappings(copy)
StripFromRing(map, keys) ==
  updateVnodeMappings(map, DeleteKeys(getVnodeMap(map), KeyIds(keys)))

UnregisterResp(instanceId, keys) ==
  [NoResp EXCEPT !.op = "unregister", !.status = 200,
                 !.instanceId = instanceId, !.removedVnodes = keys]

Unregister(instanceId) ==
  /\ UNCHANGED <<dirLoads, userCache, reqs, silent>> /\ UNCHANGED nodeVars
  /\ IF instanceId = None
     THEN /\ resp' = ErrorResp("unregister", 400, "instanceId is required")
          /\ UNCHANGED <<dirOwners, ring, ttl>>
     ELSE LET keys == vnodesToRemove(dirOwners, instanceId)
          IN  IF Len(keys) = 0
              THEN /\ resp' = ErrorResp("unregister", 404,
                                        "No vnodes found for this instance")
                   /\ UNCHANGED <<dirOwners, ring, ttl>>
              ELSE /\ dirOwners' = hdel(dirOwners, KeyIds(keys))
                   /\ ttl' = [ttl EXCEPT !.owners = afterHdel(@, dirOwners')]
                   /\ ring' = StripFromRing(ring, keys)
                   /\ resp' = UnregisterResp(instanceId, keys)
  /\ UNCHANGED sdk

(***************************************************************************)
(* Coordinator: GET /route (server.js 134-186).                            *)
(***************************************************************************)
CacheResp(userId, instance) ==
  [NoResp EXCEPT !.op = "route", !.status = 200, !.userId = userId,
                 !.instance = instance, !.source = "cache"]

HashResp(userId, vnodeId, instance) ==
  [NoResp EXCEPT !.op = "route", !.status = 200, !.userId = userId,
                 !.vnode = vnodeId, !.instance = instance, !.source = "hash"]

\* variant: the directory is not consulted when the ring has no owner
RouteInstanceRingOnly(map, owners, vnodeId) == getInstanceForVnode(map, vnodeId)

\* the owner the handler settles on: the local ring's, else the directory's
RouteInstance(map, owners, vnodeId) ==
  IF getInstanceForVnode(map, vnodeId) # None
  THEN getInstanceForVnode(map, vnodeId)
  ELSE Lookup(owners, vnodeId)

Route(userId) ==
  /\ UNCHANGED <<dirOwners, dirLoads, reqs>> /\ UNCHANGED nodeVars
  /\ UNCHANGED leaseVars
  /\ IF userId = None
     THEN /\ resp' = ErrorResp("route", 400, "userId is required")
          /\ UNCHANGED <<userCache, ring>>
     ELSE IF getCachedUserInstance(userCache, userId) # None
     THEN /\ resp' = CacheResp(userId, getCachedUserInstance(userCache, userId))
          /\ UNCHANGED <<userCache, ring>>
     ELSE LET vnodeId == getUserVnode(userId)
              instance == RouteInstance(ring, dirOwners, vnodeId)
          IN  /\ ring' = IF getInstanceForVnode(ring, vnodeId) = None
                            /\ instance # None
                         THEN setVnodeMapping(ring, vnodeId, instance)
                         ELSE ring
              /\ IF instance = None
                 THEN /\ resp' = ErrorResp("route", 404,
                                   "No instance available for this user")
                      /\ UNCHANGED userCache
                 ELSE /\ userCache' = cacheUserInstance(userCache, userId, instance)
                      /\ resp' = HashResp(userId, vnodeId, instance)
  /\ UNCHANGED sdk


(***************************************************************************)
(* Coordinator start-up (server.js 189-232): a fresh process, its ring     *)
(* warmed from the directory.                                              *)
(***************************************************************************)
loadVnodeMappings(owners) == updateVnodeMappings(EmptyMap, owners)

CoordinatorStart ==
  /\ ring' = loadVnodeMappings(dirOwners)
  /\ resp' = NoResp
  /\ UNCHANGED <<dirOwners, dirLoads, userCache, registered, reqs>>
  /\ UNCHANGED nodeVars /\ UNCHANGED leaseVars
  /\ UNCHANGED sdk

(***************************************************************************)
(* Presence node heartbeat (server.js 409-433).                            *)
(***************************************************************************)
\* onlineUsers[vnodeId] = new Set() for each assigned vnode (server.js 263-266)
NoOnlineUsers(n) == [v \in Range(assignedVnodes[n]) |-> {}]

HeartbeatOwners(n) == [v \in Range(assignedVnodes[n]) |-> n]

HeartbeatLoads(n, online) ==
  [v \in Range(assignedVnodes[n]) |-> Cardinality(online[v])]

\* the two pipelines of one heartbeat, applied by Redis
HeartbeatWrite(n, online) ==
  /\ dirOwners' = hmset(dirOwners, HeartbeatOwners(n))
  /\ dirLoads' = hmset(dirLoads, HeartbeatLoads(n, online))
  /\ ttl' = [owners |-> expire(ttl.owners, HeartbeatOwners(n)),
             loads |-> expire(ttl.loads, HeartbeatLoads(n, online))]
  /\ silent' = [silent EXCEPT ![n] = 0]

\* variant: the interval timer is never cleared
timerSetAlways(n) == phase[n] # "init"

\* the interval timer of updateHeartbeat is set and start() has got past
\* its own first heartbeat; shutdown clears the timer first
timerSet(n) == phase[n] = "running"

\* the process of node n exists and its event loop can run a handler (it
\* cannot inside the synchronous part of shutdown)
Alive(n) ==
  phase[n] \in {"listening", "running", "stopping", "consumerDown",
                "producerDown", "redisClosed"}

\* the Kafka producer of node n is connected
ProducerUp(n) == phase[n] \in {"listening", "running", "stopping", "consumerDown"}

\* the Kafka consumer of node n is running
ConsumerUp(n) == phase[n] \in {"listening", "running", "stopping"}

\* a heartbeat of the interval timer, run without anything in between
updateHeartbeat(n) ==
  /\ timerSet(n)
  /\ HeartbeatWrite(n, onlineUsers[n])
  /\ UNCHANGED <<userCache, ring, resp, registered, reqs>>
  /\ UNCHANGED nodeVars
  /\ UNCHANGED sdk

(***************************************************************************)
(* Redis key expiry (EXPIRE / SETEX, redis-client.js 38, 56, 92).          *)
(***************************************************************************)
\* vnode:owners reaches its TTL: the whole hash is gone, and with it every
\* instance's lease
ExpireOwners ==
  /\ dirOwners # EmptyMap
  /\ dirOwners' = EmptyMap
  /\ ttl' = [ttl EXCEPT !.owners = 0]
  /\ registered' = [n \in Nodes |-> {}]
  /\ UNCHANGED <<dirLoads, userCache, ring, resp, reqs, silent>>
  /\ UNCHANGED nodeVars
  /\ UNCHANGED sdk

ExpireUser(userId) ==
  /\ userCache[userId] # None
  /\ userCache' = [userCache EXCEPT ![userId] = None]
  /\ UNCHANGED <<dirOwners, dirLoads, ring, resp, registered, reqs>>
  /\ UNCHANGED nodeVars /\ UNCHANGED leaseVars
  /\ UNCHANGED sdk

(***************************************************************************)
(* Initial state and the specification in which every coordinator request  *)
(* is handled to completion before the next one starts.                    *)
(***************************************************************************)
IdleReq ==
  [pc |-> "idle", op |-> "none", instanceId |-> None, weight |-> 0,
   currentVnodeMap |-> EmptyMap, ids |-> <<>>, after |-> {}, status |-> 0]

NoConn ==
  [state |-> "none", node |-> None, userId |-> None, pc |-> "none",
   closeCode |-> 0, reason |-> None]

Init ==
  /\ dirOwners = EmptyMap
  /\ dirLoads = EmptyMap
  /\ userCache = [u \in Users |-> None]
  /\ ring = EmptyMap
  /\ resp = NoResp
  /\ registered = [n \in Nodes |-> {}]
  /\ reqs = [r \in 1 .. MaxReqs |-> IdleReq]
  /\ conns = [c \in 1 .. MaxConns |-> NoConn]
  /\ clients = [n \in Nodes |-> [u \in Users |-> 0]]
  /\ onlineUsers = [n \in Nodes |-> NoOnlineUsers(n)]
  /\ bus = <<>>
  /\ phase = [n \in Nodes |-> "init"]
  /\ offset = [n \in Nodes |-> 0]
  /\ sent = <<>>
  /\ ttl = [owners |-> 0, loads |-> 0]
  /\ silent = [n \in Nodes |-> 0]
  /\ sdk = SdkInit

\* the Instance record of the data model: what the 201 responses of an
\* instance listed, until an unregister answers 200 for it
TrackRegistered ==
  registered' =
    IF resp'.op = "register" /\ resp'.status = 201
    THEN [registered EXCEPT ![resp'.instanceId] = @ \cup Range(resp'.assignedVnodes)]
    ELSE IF resp'.op = "unregister" /\ resp'.status = 200
    THEN [registered EXCEPT ![resp'.instanceId] = {}]
    ELSE registered

\* register / unregister only, one request at a time
SeqNext ==
  \/ \E i \in Nodes \cup {None}, w \in Weights : Register(i, w) /\ TrackRegistered
  \/ \E i \in Nodes \cup {None} : Unregister(i) /\ TrackRegistered
  \/ CoordinatorStart
  \/ ExpireOwners

SpecSeq == Init /\ [][SeqNext]_vars

\* the deployment once it is up: the coordinator started on the empty
\* directory, then each presence node ran its initial heartbeat (either
\* node may have been the later one)
InitDeployed ==
  /\ onlineUsers = [n \in Nodes |-> NoOnlineUsers(n)]
  /\ \E a, b \in Nodes :
       /\ a # b
       /\ dirOwners = hmset(hmset(EmptyMap, HeartbeatOwners(a)), HeartbeatOwners(b))
       /\ dirLoads = hmset(hmset(EmptyMap, HeartbeatLoads(a, onlineUsers[a])),
                           HeartbeatLoads(b, onlineUsers[b]))
  /\ userCache = [u \in Users |-> None]
  /\ ring = EmptyMap
  /\ resp = NoResp
  /\ registered = [n \in Nodes |-> {}]
  /\ reqs = [r \in 1 .. MaxReqs |-> IdleReq]
  /\ conns = [c \in 1 .. MaxConns |-> NoConn]
  /\ clients = [n \in Nodes |-> [u \in Users |-> 0]]
  /\ bus = <<>>
  /\ phase = [n \in Nodes |-> "running"]
  /\ offset = [n \in Nodes |-> 0]
  /\ sent = <<>>
  /\ ttl = [owners |-> T_own, loads |-> T_own]
  /\ silent = [n \in Nodes |-> 0]
  /\ sdk = SdkInit

\* the coordinator with routing, heartbeats of the nodes and key expiry
Next ==
  \/ \E i \in Nodes \cup {None}, w \in Weights :
       Register(i, w) /\ UNCHANGED registered
  \/ \E i \in Nodes \cup {None} : Unregister(i) /\ UNCHANGED registered
  \/ \E u \in RouteUsers \cup {None} : Route(u) /\ UNCHANGED registered
  \/ CoordinatorStart
  \/ \E n \in Nodes : updateHeartbeat(n)
  \/ ExpireOwners
  \/ \E u \in RouteUsers : ExpireUser(u)

Spec == InitDeployed /\ [][Next]_vars

\* one client SDK against a coordinator and nodes that answer or fail
SpecSdk == Init /\ [][SdkNext]_vars

\* the coordinator's requests alone, on a directory no presence node wrote
CoordNext ==
  \/ \E i \in Nodes \cup {None}, w \in Weights :
       Register(i, w) /\ UNCHANGED registered
  \/ \E i \in Nodes \cup {None} : Unregister(i) /\ UNCHANGED registered
  \/ \E u \in RouteUsers \cup {None} : Route(u) /\ UNCHANGED registered
  \/ CoordinatorStart
  \/ \E u \in RouteUsers : ExpireUser(u)

SpecCoord == Init /\ [][CoordNext]_vars


(***************************************************************************)
(* POST /nodes/register step by step (server.js 39-86).  The handler is    *)
(* async: it yields at "await getAllVnodeOwners()" and at                  *)
(* "await updateVnodeOwners()", and the single-threaded event loop runs    *)
(* other handlers of the same process in between.                          *)
(***************************************************************************)
\* requests whose directory write Redis has already applied
Written == {q \in 1 .. MaxReqs : reqs[q].pc \in {"written", "done"}
                                  /\ reqs[q].ids # <<>>}

\* the request arrives; the handler runs up to its first await
RegBegin(r, instanceId, weight) ==
  /\ reqs[r].pc = "idle"
  /\ reqs' = [reqs EXCEPT ![r] =
                IF instanceId = None
                THEN [@ EXCEPT !.op = "register", !.pc = "done", !.status = 400]
                ELSE [@ EXCEPT !.op = "register", !.pc = "reading",
                               !.instanceId = instanceId, !.weight = weight]]
  /\ resp' = IF instanceId = None
             THEN ErrorResp("register", 400, "instanceId is required")
             ELSE resp
  /\ UNCHANGED <<dirOwners, dirLoads, userCache, ring, registered>>
  /\ UNCHANGED nodeVars /\ UNCHANGED leaseVars
  /\ UNCHANGED sdk

\* Redis answers HGETALL; the handler scans for free ids and either answers
\* 409 or sends the HMSET/EXPIRE pipeline
RegRead(r) ==
  /\ reqs[r].pc = "reading"
  /\ LET ids == availableVnodes(dirOwners, reqs[r].weight)
     IN  /\ reqs' = [reqs EXCEPT ![r] =
                       [@ EXCEPT !.currentVnodeMap = dirOwners, !.ids = ids,
                                 !.after = Written,
                                 !.pc = IF Len(ids) = 0 THEN "done" ELSE "writing",
                                 !.status = IF Len(ids) = 0 THEN 409 ELSE 0]]
         /\ resp' = IF Len(ids) = 0
                    THEN ErrorResp("register", 409, "No available vnodes")
                    ELSE resp
  /\ UNCHANGED <<dirOwners, dirLoads, userCache, ring, registered>>
  /\ UNCHANGED nodeVars /\ UNCHANGED leaseVars
  /\ UNCHANGED sdk

\* Redis applies the pipeline
RegWrite(r) ==
  /\ reqs[r].pc = "writing"
  /\ dirOwners' = hmset(dirOwners, MappingsFor(reqs[r].ids, reqs[r].instanceId))
  /\ ttl' = [ttl EXCEPT !.owners =
               expire(@, MappingsFor(reqs[r].ids, reqs[r].instanceId))]
  /\ silent' = [silent EXCEPT ![reqs[r].instanceId] = 0]
  /\ reqs' = [reqs EXCEPT ![r].pc = "written"]
  /\ UNCHANGED <<dirLoads, userCache, ring, resp, registered>>
  /\ UNCHANGED nodeVars
  /\ UNCHANGED sdk

\* the handler resumes: local ring, then the 201 response
RegRespond(r) ==
  /\ reqs[r].pc = "written"
  /\ ring' = updateVnodeMappings(ring,
                MappingsFor(reqs[r].ids, reqs[r].instanceId))
  /\ reqs' = [reqs EXCEPT ![r].pc = "done", ![r].status = 201]
  /\ resp' = RegisterResp(reqs[r].instanceId, reqs[r].ids)
  /\ UNCHANGED <<dirOwners, dirLoads, userCache, registered>>
  /\ UNCHANGED nodeVars /\ UNCHANGED leaseVars
  /\ UNCHANGED sdk

\* an unregister request arrives; the handler runs up to its first await
UnregBegin(r, instanceId) ==
  /\ reqs[r].pc = "idle"
  /\ \A q \in 1 .. (r - 1) : reqs[q].pc # "idle"
  /\ reqs' = [reqs EXCEPT ![r] =
                IF instanceId = None
                THEN [@ EXCEPT !.op = "unregister", !.pc = "done", !.status = 400]
                ELSE [@ EXCEPT !.op = "unregister", !.pc = "unregReading",
                               !.instanceId = instanceId]]
  /\ resp' = IF instanceId = None
             THEN ErrorResp("unregister", 400, "instanceId is required")
             ELSE resp
  /\ UNCHANGED <<dirOwners, dirLoads, userCache, ring, registered>>
  /\ UNCHANGED nodeVars /\ UNCHANGED leaseVars
  /\ UNCHANGED sdk

\* Redis answers HGETALL; the handler filters the entries of the instance
\* and either answers 404 or sends the HDEL pipeline
UnregRead(r) ==
  /\ reqs[r].pc = "unregReading"
  /\ LET keys == vnodesToRemove(dirOwners, reqs[r].instanceId)
     IN  /\ reqs' = [reqs EXCEPT ![r] =
                       [@ EXCEPT !.ids = [i \in DOMAIN keys |-> ParseKey(keys[i])],
                                 !.pc = IF Len(keys) = 0 THEN "done"
                                        ELSE "unregDeleting",
                                 !.status = IF Len(keys) = 0 THEN 404 ELSE 0]]
         /\ resp' = IF Len(keys) = 0
                    THEN ErrorResp("unregister", 404,
                                   "No vnodes found for this instance")
                    ELSE resp
  /\ UNCHANGED <<dirOwners, dirLoads, userCache, ring, registered>>
  /\ UNCHANGED nodeVars /\ UNCHANGED leaseVars
  /\ UNCHANGED sdk

\* Redis applies the HDEL pipeline
UnregDelete(r) ==
  /\ reqs[r].pc = "unregDeleting"
  /\ dirOwners' = hdel(dirOwners, Range(reqs[r].ids))
  /\ ttl' = [ttl EXCEPT !.owners = afterHdel(@, dirOwners')]
  /\ reqs' = [reqs EXCEPT ![r].pc = "unregDeleted"]
  /\ UNCHANGED <<dirLoads, userCache, ring, resp, registered, silent>>
  /\ UNCHANGED nodeVars
  /\ UNCHANGED sdk

\* the handler resumes: local ring, then the 200 response
UnregRespond(r) ==
  /\ reqs[r].pc = "unregDeleted"
  /\ LET keys == [i \in DOMAIN reqs[r].ids |-> ToStr(reqs[r].ids[i])]
     IN  /\ ring' = StripFromRing(ring, keys)
         /\ resp' = UnregisterResp(reqs[r].instanceId, keys)
  /\ reqs' = [reqs EXCEPT ![r].pc = "done", ![r].status = 200]
  /\ UNCHANGED <<dirOwners, dirLoads, userCache, registered>>
  /\ UNCHANGED nodeVars /\ UNCHANGED leaseVars
  /\ UNCHANGED sdk

UnregNext ==
  \/ \E r \in 1 .. MaxUnreg, i \in Nodes \cup {None} : UnregBegin(r, i)
  \/ \E r \in 1 .. MaxUnreg : UnregRead(r)
  \/ \E r \in 1 .. MaxUnreg : UnregDelete(r)
  \/ \E r \in 1 .. MaxUnreg : UnregRespond(r)
  \/ \E i \in Nodes, w \in Weights : Register(i, w) /\ UNCHANGED registered
  \/ \E n \in Nodes : updateHeartbeat(n)
  \/ ExpireOwners

\* unregister handlers interleaved at their awaits with registers, the
\* heartbeats of the nodes and the expiry of the owner map
SpecUnreg == InitDeployed /\ [][UnregNext]_vars

RaceNext ==
  \/ \E r \in 1 .. MaxReqs, i \in Nodes \cup {None}, w \in Weights :
       RegBegin(r, i, w)
  \/ \E r \in 1 .. MaxReqs : RegRead(r)
  \/ \E r \in 1 .. MaxReqs : RegWrite(r)
  \/ \E r \in 1 .. MaxReqs : RegRespond(r)

\* one coordinator process, its register handlers interleaved at the awaits
SpecRace == Init /\ [][RaceNext]_vars

(***************************************************************************)
(* Auth (src/src/common/redis-client.js 116-220).                          *)
(***************************************************************************)
\* a JWT: whether its signature verifies under the secret, and the userId
\* claim of its payload (None when the payload carries none); NullToken
\* stands for "no token"
NullToken == [null |-> TRUE, signed |-> FALSE, userId |-> None]

Jwt(signed, userId) == [null |-> FALSE, signed |-> signed, userId |-> userId]

Tokens ==
  {Jwt(TRUE, u) : u \in Users} \cup {Jwt(FALSE, "u1"), Jwt(TRUE, None)}

\* an upgrade request: the parts of the Authorization header split at the
\* blank (empty when there is no such header), the token query parameter
\* and the token cookie
NoTokenRequest ==
  [authorization |-> <<>>, urlToken |-> NullToken, cookieToken |-> NullToken]

Requests ==
  {NoTokenRequest}
    \cup {[NoTokenRequest EXCEPT !.urlToken = t] : t \in Tokens}
    \cup {[NoTokenRequest EXCEPT !.authorization = <<"Bearer", t>>] : t \in Tokens}
    \cup {[NoTokenRequest EXCEPT !.authorization = <<"Basic", Jwt(TRUE, "u1")>>],
          [NoTokenRequest EXCEPT !.cookieToken = Jwt(TRUE, "u2")]}

\* variant: the cookie is looked at first, the header last
extractTokenCookieFirst(req) ==
  LET fromHeader == IF Len(req.authorization) = 2
                       /\ req.authorization[1] = "Bearer"
                    THEN req.authorization[2] ELSE NullToken
      fromUrl == IF req.cookieToken.null THEN req.urlToken ELSE req.cookieToken
  IN  IF fromUrl.null THEN fromHeader ELSE fromUrl

extractToken(req) ==
  LET fromHeader == IF Len(req.authorization) = 2
                       /\ req.authorization[1] = "Bearer"
                    THEN req.authorization[2] ELSE NullToken
      fromUrl == IF fromHeader.null THEN req.urlToken ELSE fromHeader
  IN  IF fromUrl.null THEN req.cookieToken ELSE fromUrl

\* jwt.verify: the decoded payload, or null
NullPayload == [null |-> TRUE, userId |-> None]

verifyToken(token) ==
  IF token.signed THEN [null |-> FALSE, userId |-> token.userId] ELSE NullPayload

extractUserId(token) ==
  IF ~verifyToken(token).null THEN verifyToken(token).userId ELSE None

(***************************************************************************)
(* Presence node: wss.on('connection') (server.js 278-406).                *)
(***************************************************************************)
\* variant: every authenticated user is taken
isUserOwnedByAnyNode(n, userId) == TRUE

\* config.assignedVnodes.includes(getUserVnode(userId))
isUserOwnedByThisNode(n, userId) ==
  getUserVnode(userId) \in Range(assignedVnodes[n])

StatusEvent(userId, action, n) ==
  [userId |-> userId, action |-> action, nodeId |-> n]

Rejected(n, code, reason) ==
  [NoConn EXCEPT !.state = "closed", !.node = n, !.pc = "rejected",
                 !.closeCode = code, !.reason = reason]

\* the handler up to "await producer.send(online)"
WsConnect(c, n, req) ==
  /\ conns[c].state = "none"
  /\ \A b \in 1 .. (c - 1) : conns[b].state # "none"
  /\ phase[n] \in {"listening", "running"}
  /\ UNCHANGED coordVars /\ UNCHANGED <<reqs, bus, phase, offset, sent>>
  /\ UNCHANGED leaseVars
  /\ LET token == extractToken(req)
         userId == IF token.null THEN None ELSE extractUserId(token)
     IN  IF token.null
         THEN /\ conns' = [conns EXCEPT ![c] = Rejected(n, 1008, "No token provided")]
              /\ UNCHANGED <<clients, onlineUsers>>
         ELSE IF userId = None
         THEN /\ conns' = [conns EXCEPT ![c] = Rejected(n, 1008, "Invalid token")]
              /\ UNCHANGED <<clients, onlineUsers>>
         ELSE IF ~isUserOwnedByThisNode(n, userId)
         THEN /\ conns' = [conns EXCEPT ![c] =
                 [Rejected(n, 1008, "User does not belong to this node")
                    EXCEPT !.userId = userId]]
              /\ UNCHANGED <<clients, onlineUsers>>
         ELSE /\ clients' = [clients EXCEPT ![n][userId] = c]
              /\ onlineUsers' =
                   [onlineUsers EXCEPT ![n][getUserVnode(userId)] = @ \cup {userId}]
              /\ conns' = [conns EXCEPT ![c] =
                   [NoConn EXCEPT !.state = "open", !.node = n,
                                  !.userId = userId, !.pc = "publishing"]]
  /\ UNCHANGED sdk

Frame(c, type) == [to |-> c, type |-> type]

\* producer.send(online) resolves; the handler installs the message, close
\* and error handlers and sends the welcome frame (which reaches nobody when
\* the socket closed in the meantime)
PublishOnlineOk(c) ==
  /\ conns[c].pc = "publishing"
  /\ ProducerUp(conns[c].node)
  /\ bus' = Append(bus, StatusEvent(conns[c].userId, "online", conns[c].node))
  /\ conns' = [conns EXCEPT ![c].pc = "established"]
  /\ sent' = IF conns[c].state = "open" THEN <<Frame(c, "welcome")>> ELSE <<>>
  /\ UNCHANGED coordVars /\ UNCHANGED <<reqs, clients, onlineUsers, phase, offset>>
  /\ UNCHANGED leaseVars
  /\ UNCHANGED sdk

\* producer.send(online) rejects: the catch block closes an open socket
\* with 1011; no handler was installed
PublishOnlineFail(c) ==
  /\ conns[c].pc = "publishing"
  /\ Alive(conns[c].node)
  /\ conns' = [conns EXCEPT ![c] =
        IF @.state = "open"
        THEN [@ EXCEPT !.pc = "failed", !.state = "closed", !.closeCode = 1011,
                       !.reason = "Internal server error"]
        ELSE [@ EXCEPT !.pc = "failed"]]
  /\ sent' = <<>>
  /\ UNCHANGED coordVars
  /\ UNCHANGED <<reqs, clients, onlineUsers, bus, phase, offset>>
  /\ UNCHANGED leaseVars
  /\ UNCHANGED sdk

\* a text frame of a client: not JSON at all, the JSON value null, or a
\* JSON object with its type member (None when it has none)
Malformed == [kind |-> "malformed", type |-> None]

JsonNull == [kind |-> "null", type |-> None]

JsonObject(type) == [kind |-> "object", type |-> type]

ClientFrames ==
  {Malformed, JsonNull}
    \cup {JsonObject(t) : t \in {"ping", "pong", "status_update", None}}

\* variant: every frame that parses to an object is answered
messageReplyAny(c, frame) ==
  IF frame.kind = "object" THEN <<Frame(c, "pong")>> ELSE <<>>

\* ws.on('message'): JSON.parse throws on a malformed frame and data.type
\* on null, both end in the catch block; only case 'ping' sends
messageReply(c, frame) ==
  IF frame.kind = "object" /\ frame.type = "ping"
  THEN <<Frame(c, "pong")>> ELSE <<>>

\* a frame arrives on a socket whose message handler is installed; a
\* socket that is closing still receives, but its send reaches nobody
WsMessage(c, frame) ==
  /\ conns[c].pc = "established"
  /\ conns[c].state \in {"open", "closing"}
  /\ Alive(conns[c].node)
  /\ sent' = IF conns[c].state = "open" THEN messageReply(c, frame) ELSE <<>>
  /\ UNCHANGED coordVars
  /\ UNCHANGED <<reqs, conns, clients, onlineUsers, bus, phase, offset>>
  /\ UNCHANGED leaseVars
  /\ UNCHANGED sdk

\* the socket closes.  The 'close' handler exists only once the handler has
\* got past the online publish; it removes the user and publishes offline
\* (a failed publish is logged).
WsClose(c, published) ==
  /\ conns[c].state \in {"open", "closing"}
  /\ Alive(conns[c].node)
  /\ (conns[c].pc = "established" /\ published) => ProducerUp(conns[c].node)
  /\ UNCHANGED coordVars /\ UNCHANGED <<reqs, phase, offset, sent>>
  /\ UNCHANGED leaseVars
  /\ conns' = [conns EXCEPT ![c].state = "closed"]
  /\ IF conns[c].pc = "established"
     THEN LET n == conns[c].node
              userId == conns[c].userId
          IN  /\ onlineUsers' =
                   [onlineUsers EXCEPT ![n][getUserVnode(userId)] = @ \ {userId}]
              /\ clients' = [clients EXCEPT ![n][userId] = 0]
              /\ bus' = IF published
                        THEN Append(bus, StatusEvent(userId, "offline", n))
                        ELSE bus
     ELSE /\ published
          /\ UNCHANGED <<clients, onlineUsers, bus>>
  /\ UNCHANGED sdk

(***************************************************************************)
(* Presence node: graceful shutdown (server.js 520-545).                   *)
(***************************************************************************)
\* SIGINT / SIGTERM arrives: clearInterval(heartbeatInterval)
Shutdown(n) ==
  /\ phase[n] = "running"
  /\ phase' = [phase EXCEPT ![n] = "timerCleared"]
  /\ UNCHANGED coordVars
  /\ UNCHANGED <<reqs, conns, clients, onlineUsers, bus, offset, sent>>
  /\ UNCHANGED leaseVars
  /\ UNCHANGED sdk

\* every socket of wss.clients gets close(1001, 'Server shutting down')
ShutdownCloseSessions(n) ==
  /\ phase[n] = "timerCleared"
  /\ phase' = [phase EXCEPT ![n] = "sessionsClosing"]
  /\ conns' = [c \in DOMAIN conns |->
        IF conns[c].node = n /\ conns[c].state = "open"
        THEN [conns[c] EXCEPT !.state = "closing", !.closeCode = 1001,
                              !.reason = "Server shutting down"]
        ELSE conns[c]]
  /\ UNCHANGED coordVars /\ UNCHANGED <<reqs, clients, onlineUsers, bus, offset, sent>>
  /\ UNCHANGED leaseVars
  /\ UNCHANGED sdk

\* the step of shutdown that only moves on to the next one
ShutdownStep(n, from, to) ==
  /\ phase[n] = from
  /\ phase' = [phase EXCEPT ![n] = to]
  /\ UNCHANGED coordVars
  /\ UNCHANGED <<reqs, conns, clients, onlineUsers, bus, offset, sent>>
  /\ UNCHANGED leaseVars
  /\ UNCHANGED sdk

\* server.close(): no further connection is accepted; the handler goes on
\* to await consumer.disconnect()
ShutdownServerClose(n) == ShutdownStep(n, "sessionsClosing", "stopping")

\* consumer.disconnect() has resolved
ConsumerDisconnected(n) == ShutdownStep(n, "stopping", "consumerDown")

\* producer.disconnect() has resolved
ProducerDisconnected(n) == ShutdownStep(n, "consumerDown", "producerDown")

\* redisClient.close() has resolved
RedisClosed(n) == ShutdownStep(n, "producerDown", "redisClosed")

\* process.exit(0): sockets whose 'close' event has not been emitted yet go
\* down with the process
Exit(n) ==
  /\ phase[n] = "redisClosed"
  /\ phase' = [phase EXCEPT ![n] = "stopped"]
  /\ conns' = [c \in DOMAIN conns |->
        IF conns[c].node = n /\ conns[c].state = "closing"
        THEN [conns[c] EXCEPT !.state = "closed"]
        ELSE conns[c]]
  /\ UNCHANGED coordVars /\ UNCHANGED <<reqs, clients, onlineUsers, bus, offset, sent>>
  /\ UNCHANGED leaseVars
  /\ UNCHANGED sdk

\* SIGINT / SIGTERM arrives while start() still awaits its first heartbeat:
\* no handler is installed yet (process.on comes after the await), the
\* signal has its default disposition and ends the process at once; the
\* sockets drop without a close frame (code 1006 at the client)
SignalDuringStart(n) ==
  /\ phase[n] = "listening"
  /\ phase' = [phase EXCEPT ![n] = "stopped"]
  /\ conns' = [c \in DOMAIN conns |->
        IF conns[c].node = n /\ conns[c].state \in {"open", "closing"}
        THEN [conns[c] EXCEPT !.state = "closed",
                !.closeCode = IF conns[c].state = "open" THEN 1006
                              ELSE conns[c].closeCode]
        ELSE conns[c]]
  /\ UNCHANGED coordVars /\ UNCHANGED <<reqs, clients, onlineUsers, bus, offset, sent>>
  /\ UNCHANGED leaseVars
  /\ UNCHANGED sdk

\* shutdown() from the signal to the exit of the process
ShutdownNext(n) ==
  \/ Shutdown(n)
  \/ ShutdownCloseSessions(n)
  \/ ShutdownServerClose(n)
  \/ ConsumerDisconnected(n)
  \/ ProducerDisconnected(n)
  \/ RedisClosed(n)
  \/ Exit(n)

NodeNext ==
  \/ \E c \in 1 .. MaxConns, n \in Nodes, req \in Requests : WsConnect(c, n, req)
  \/ \E c \in 1 .. MaxConns : PublishOnlineOk(c)
  \/ \E c \in 1 .. MaxConns : PublishOnlineFail(c)
  \/ \E c \in 1 .. MaxConns, published \in BOOLEAN : WsClose(c, published)

\* the presence nodes, started, and their client connections
SpecNode == InitDeployed /\ [][NodeNext]_vars

(***************************************************************************)
(* Presence node: start() (server.js 489-518).                             *)
(***************************************************************************)
\* start() up to "await updateHeartbeat()": Kafka is connected, the consumer
\* subscribed (fromBeginning: false), server.listen() called, the interval
\* timer set, and the first heartbeat has computed its maps (no user is
\* online yet) and sent its first pipeline
start(n) ==
  /\ phase[n] = "init"
  /\ phase' = [phase EXCEPT ![n] = "listening"]
  /\ offset' = [offset EXCEPT ![n] = Len(bus)]
  /\ UNCHANGED coordVars /\ UNCHANGED <<reqs, conns, clients, onlineUsers, bus, sent>>
  /\ UNCHANGED leaseVars
  /\ UNCHANGED sdk

\* Redis has applied the pipelines of the first heartbeat; start() resumes
\* and installs the signal handlers
startHeartbeatDone(n) ==
  /\ phase[n] = "listening"
  /\ phase' = [phase EXCEPT ![n] = "running"]
  /\ HeartbeatWrite(n, NoOnlineUsers(n))
  /\ UNCHANGED <<userCache, ring, resp, registered, reqs>>
  /\ UNCHANGED <<conns, clients, onlineUsers, bus, offset, sent>>
  /\ UNCHANGED sdk

(***************************************************************************)
(* Presence node: the Kafka consumer (server.js 436-486).                  *)
(***************************************************************************)
\* variant: no event is recognised as the node's own
isOwnEventNever(n, payload) == FALSE

\* nodeId === config.nodeId
isOwnEvent(n, payload) == payload.nodeId = n

\* variant: an online event flips the membership of the user
applyActionFlip(set, action, userId) ==
  IF action = "online"
  THEN (IF userId \in set THEN set \ {userId} ELSE set \cup {userId})
  ELSE IF action = "offline" THEN set \ {userId}
  ELSE set

\* variant: offline events are not applied
applyActionOnlineOnly(set, action, userId) ==
  IF action = "online" THEN set \cup {userId} ELSE set

\* variant: online events are not applied
applyActionOfflineOnly(set, action, userId) ==
  IF action = "offline" THEN set \ {userId} ELSE set

\* Set.add for online, Set.delete for offline, nothing otherwise
applyAction(set, action, userId) ==
  IF action = "online" THEN set \cup {userId}
  ELSE IF action = "offline" THEN set \ {userId}
  ELSE set

\* whether eachMessage gets past its two early returns
Processed(n, payload) ==
  ~isOwnEvent(n, payload) /\ isUserOwnedByThisNode(n, payload.userId)

\* onlineUsers of node n after eachMessage has handled payload
consume(n, online, payload) ==
  IF Processed(n, payload)
  THEN [online EXCEPT ![getUserVnode(payload.userId)] =
          applyAction(@, payload.action, payload.userId)]
  ELSE online

\* the status_update frame eachMessage sends, if any
Notify(n, payload) ==
  LET client == clients[n][payload.userId]
  IN  IF Processed(n, payload) /\ client # 0 /\ conns[client].state = "open"
      THEN <<Frame(client, "status_update")>>
      ELSE <<>>

\* the consumer of node n hands the next record of the topic to eachMessage
eachMessage(n) ==
  /\ ConsumerUp(n)
  /\ offset[n] < Len(bus)
  /\ offset' = [offset EXCEPT ![n] = @ + 1]
  /\ onlineUsers' = [onlineUsers EXCEPT ![n] =
                       consume(n, @, bus[offset[n] + 1])]
  /\ sent' = Notify(n, bus[offset[n] + 1])
  /\ UNCHANGED coordVars /\ UNCHANGED <<reqs, conns, clients, bus, phase>>
  /\ UNCHANGED leaseVars
  /\ UNCHANGED sdk

\* at-least-once delivery: after a rebalance or a consumer restart the
\* records from an earlier position k are delivered again
Redeliver(n, k) ==
  /\ ConsumerUp(n)
  /\ k < offset[n]
  /\ offset' = [offset EXCEPT ![n] = k]
  /\ UNCHANGED coordVars
  /\ UNCHANGED <<reqs, conns, clients, onlineUsers, bus, phase, sent>>
  /\ UNCHANGED leaseVars
  /\ UNCHANGED sdk

\* the upgrade requests of SDK clients: the token in the query string
ClientRequests ==
  {[NoTokenRequest EXCEPT !.urlToken = Jwt(TRUE, u)] : u \in Users}

PresenceNext ==
  \/ \E n \in Nodes : start(n)
  \/ \E n \in Nodes : startHeartbeatDone(n)
  \/ \E c \in 1 .. MaxConns, n \in Nodes, req \in ClientRequests :
       WsConnect(c, n, req)
  \/ \E c \in 1 .. MaxConns : PublishOnlineOk(c)
  \/ \E c \in 1 .. MaxConns : PublishOnlineFail(c)
  \/ \E c \in 1 .. MaxConns, published \in BOOLEAN : WsClose(c, published)
  \/ \E n \in Nodes : updateHeartbeat(n)
  \/ \E n \in Nodes : eachMessage(n)
  \/ \E n \in Nodes, k \in 0 .. (2 * MaxConns) : Redeliver(n, k)

\* the presence nodes from process start: sessions, heartbeats and the bus
SpecPresence == Init /\ [][PresenceNext]_vars

SessionNext ==
  \/ \E c \in 1 .. MaxConns, n \in Nodes, req \in ClientRequests :
       WsConnect(c, n, req)
  \/ \E c \in 1 .. MaxConns : PublishOnlineOk(c)
  \/ \E c \in 1 .. MaxConns : PublishOnlineFail(c)
  \/ \E c \in 1 .. MaxConns, published \in BOOLEAN : WsClose(c, published)
  \/ \E n \in Nodes : ShutdownNext(n)

\* the sessions of SDK clients on started nodes, up to the nodes' shutdown
SpecSession == InitDeployed /\ [][SessionNext]_vars

StopNext ==
  \/ \E c \in 1 .. MaxSessions, n \in Nodes, req \in ClientRequests :
       WsConnect(c, n, req)
  \/ \E c \in 1 .. MaxSessions : PublishOnlineOk(c)
  \/ \E c \in 1 .. MaxSessions, published \in BOOLEAN : WsClose(c, published)
  \/ \E n \in Nodes : start(n)
  \/ \E n \in Nodes : startHeartbeatDone(n)
  \/ \E n \in Nodes : updateHeartbeat(n)
  \/ \E n \in Nodes : SignalDuringStart(n)
  \/ \E n \in Nodes : ShutdownNext(n)

FrameNext ==
  \/ \E c \in 1 .. MaxSessions, n \in Nodes, req \in ClientRequests :
       /\ isUserOwnedByThisNode(n, req.urlToken.userId)
       /\ WsConnect(c, n, req)
  \/ \E c \in 1 .. MaxSessions : PublishOnlineOk(c)
  \/ \E c \in 1 .. MaxSessions, frame \in ClientFrames : WsMessage(c, frame)
  \/ \E c \in 1 .. MaxSessions : WsClose(c, TRUE)
  \/ \E n \in Nodes : ShutdownNext(n)

\* established sessions and the frames their clients send, up to shutdown
SpecFrame == InitDeployed /\ [][FrameNext]_vars

\* tokens that lead the connection handler to different outcomes
AuthTokens == {Jwt(TRUE, "u1"), Jwt(TRUE, "u3"), Jwt(FALSE, "u1")}

\* the Authorization headers of the requests: none, Bearer <t>, another
\* scheme, a scheme without token and a value of three parts
AuthHeaders ==
  {<<>>, <<"Basic", Jwt(TRUE, "u3")>>, <<"Bearer">>,
   <<"Bearer", Jwt(TRUE, "u3"), Jwt(TRUE, "u3")>>}
    \cup {<<"Bearer", t>> : t \in AuthTokens}

\* request objects as Auth.extractToken takes them, with every combination
\* of header, token query parameter and token cookie (req.cookies as a
\* cookie parser in front of the handler would fill it)
AuthRequests ==
  {[authorization |-> h, urlToken |-> q, cookieToken |-> k] :
     h \in AuthHeaders, q \in AuthTokens \cup {NullToken},
     k \in AuthTokens \cup {NullToken}}

AuthNext ==
  \/ \E c \in 1 .. MaxConns, n \in Nodes, req \in AuthRequests :
       WsConnect(c, n, req)
  \/ \E c \in 1 .. MaxConns : PublishOnlineOk(c)

\* the connection handler of started nodes under requests that carry
\* tokens in several places
SpecAuth == InitDeployed /\ [][AuthNext]_vars

\* the presence nodes from process start, with sessions and heartbeats, up
\* to a SIGINT / SIGTERM
SpecStop == Init /\ [][StopNext]_vars

\* the clients were routed to a node that has their vnode
BusNext ==
  \/ \E c \in 1 .. MaxSessions, n \in Nodes, req \in ClientRequests :
       /\ isUserOwnedByThisNode(n, req.urlToken.userId)
       /\ WsConnect(c, n, req)
  \/ \E c \in 1 .. MaxSessions : PublishOnlineOk(c)
  \/ \E c \in 1 .. MaxSessions : WsClose(c, TRUE)
  \/ \E n \in Nodes : eachMessage(n)
  \/ \E n \in Nodes, k \in 0 .. (2 * MaxSessions) : Redeliver(n, k)

\* sessions whose events reach the bus, and the consumers of the nodes
SpecBus == InitDeployed /\ [][BusNext]_vars

(***************************************************************************)
(* The directory leases in time (EXPIRE ttl, redis-client.js 38 and 56).   *)
(***************************************************************************)
Min(a, b) == IF a <= b THEN a ELSE b

\* one unit of time passes: the keys lose one unit of their TTL and a key
\* whose TTL has run out is removed
Tick ==
  /\ ttl' = [owners |-> Max(0, ttl.owners - 1), loads |-> Max(0, ttl.loads - 1)]
  /\ dirOwners' = IF ttl'.owners = 0 THEN EmptyMap ELSE dirOwners
  /\ dirLoads' = IF ttl'.loads = 0 THEN EmptyMap ELSE dirLoads
  /\ silent' = [n \in Nodes |-> Min(T_own, silent[n] + 1)]
  /\ UNCHANGED <<userCache, ring, resp, registered, reqs>>
  /\ UNCHANGED nodeVars
  /\ UNCHANGED sdk

LeaseNext ==
  \/ Tick
  \/ \E n \in Nodes : updateHeartbeat(n)
  \/ \E i \in Nodes, w \in Weights : Register(i, w) /\ UNCHANGED registered

\* the directory with time passing: heartbeats of the running nodes,
\* register requests, and the expiry of the keys
SpecLease == InitDeployed /\ [][LeaseNext]_vars

(***************************************************************************)
(* Properties of register / unregister handled one at a time (SpecSeq).    *)
(***************************************************************************)
\* the ids of S below which fewer than n ids of S lie
LowestOf(S, n) == {v \in S : Cardinality({x \in S : x < v}) < n}

\* C1: with requests handled one at a time, register assigns only vnodes
\* that have no owner in the directory when the request is handled, and so
\* no vnode id is listed for two different instances that are both still
\* registered.
C1_RegisterAssignsOnlyFree ==
  /\ [][\A i \in Nodes, w \in Weights :
          (Register(i, w) /\ resp'.status = 201) =>
             /\ Range(resp'.assignedVnodes) \cap DOMAIN dirOwners = {}
             /\ \A v \in Range(resp'.assignedVnodes) : dirOwners'[v] = i]_vars
  /\ [](\A i, j \in Nodes : i # j => registered[i] \cap registered[j] = {})

\* both instances hold vnodes and the last register had to skip owned ids
C1_Witness ==
  /\ resp.op = "register" /\ resp.status = 201
  /\ \A i \in Nodes : registered[i] # {}
  /\ resp.assignedVnodes[1] > 0

\* the register example of the specification, on the handler's own scan:
\* V = 1024, empty ring, weight 1 gets 0..9, then weight 10 gets 10..111
RegisterExample ==
  /\ availableVnodesOf(1024, EmptyMap, desiredVnodesOf(1024, 1))
       = [k \in 1 .. 10 |-> k - 1]
  /\ availableVnodesOf(1024, [v \in 0 .. 9 |-> "A"], desiredVnodesOf(1024, 10))
       = [k \in 1 .. 102 |-> k + 9]

\* C3: a successful register assigns exactly min(desired, free) vnodes,
\* desired = max(1, floor(V * weight / 100)), and they are the lowest
\* unowned ids in ascending order; with no unowned id it answers 409.
\* Example of the specification: V = 1024, weight 1 gets 0..9 on the empty
\* ring, then weight 10 gets 10..111.
C3_RegisterLowestFree ==
  [][\A i \in Nodes, w \in Weights :
       Register(i, w) =>
         /\ LET free == Vnodes \ DOMAIN dirOwners
                f == (vnodeCount * w) \div 100
                desired == IF f < 1 THEN 1 ELSE f
                n == IF desired < Cardinality(free) THEN desired
                     ELSE Cardinality(free)
            IN  IF n = 0
                THEN resp'.status = 409 /\ dirOwners' = dirOwners
                ELSE /\ resp'.status = 201
                     /\ Len(resp'.assignedVnodes) = n
                     /\ resp'.assignedVnodes = Ascending(LowestOf(free, n))
                     /\ DOMAIN dirOwners' = DOMAIN dirOwners \cup LowestOf(free, n)
         /\ RegisterExample]_vars

\* a register that wanted more vnodes than were left and got the rest
C3_Witness ==
  /\ resp.op = "register" /\ resp.status = 201
  /\ Len(resp.assignedVnodes) = 1
  /\ resp.assignedVnodes[1] = vnodeCount - 1
  /\ DOMAIN dirOwners = Vnodes
  /\ \E v \in Vnodes : dirOwners[v] # resp.instanceId

\* C6: after unregister answers 200 for N the directory maps no vnode to N,
\* and removedVnodes is exactly the vnodes that were mapped to N.
C6_UnregisterRemovesOwnership ==
  [][\A i \in Nodes :
       (Unregister(i) /\ resp'.status = 200) =>
          /\ \A v \in DOMAIN dirOwners' : dirOwners'[v] # i
          /\ KeyIds(resp'.removedVnodes) =
               {v \in DOMAIN dirOwners : dirOwners[v] = i}
          /\ Len(resp'.removedVnodes) =
               Cardinality({v \in DOMAIN dirOwners : dirOwners[v] = i})]_vars

\* an unregister removed two vnodes and left the other instance's entry
C6_Witness ==
  /\ resp.op = "unregister" /\ resp.status = 200
  /\ Len(resp.removedVnodes) >= 2
  /\ dirOwners # EmptyMap

\* C7: after unregister answers 200 for N the coordinator's local ring maps
\* none of the removed vnodes to N.
C7_RingStripped ==
  [][\A i \in Nodes :
       (Unregister(i) /\ resp'.status = 200) =>
          \A v \in KeyIds(resp'.removedVnodes) :
             getInstanceForVnode(ring', v) # i]_vars


(***************************************************************************)
(* Properties of /route (Spec).                                            *)
(***************************************************************************)
\* C5: whenever /route answers 200 with instance N for a user, the user's
\* vnode is in N's assignedVnodes, so that N does not reject the session
\* for ownership.
C5_RoutedInstanceOwnsUser ==
  [][\A u \in RouteUsers :
       (Route(u) /\ resp'.status = 200) =>
          getUserVnode(u) \in Range(assignedVnodes[resp'.instance])]_vars

\* C8: with no cache entry, /route answers with source hash the owner of
\* the user's vnode in the local ring or, if the ring has none, the owner in
\* the directory, and then writes the cache entry; with no owner in either
\* it answers 404 and writes no cache entry.
C8_RouteHashPath ==
  [][\A u \in RouteUsers :
       (Route(u) /\ userCache[u] = None) =>
          LET v == getUserVnode(u)
              owner == IF v \in DOMAIN ring THEN ring[v]
                       ELSE IF v \in DOMAIN dirOwners THEN dirOwners[v]
                       ELSE None
          IN  IF owner = None
              THEN resp'.status = 404 /\ userCache' = userCache
              ELSE /\ resp'.status = 200 /\ resp'.source = "hash"
                   /\ resp'.instance = owner /\ resp'.vnode = v
                   /\ userCache' = [userCache EXCEPT ![u] = owner]]_vars

\* a hash answer taken from the directory while the ring held no owner for
\* the user's vnode (the ring learnt it from this answer only)
C8_Witness ==
  /\ resp.op = "route" /\ resp.source = "hash"
  /\ userCache[resp.userId] = resp.instance
  /\ DOMAIN ring = {resp.vnode}
  /\ dirOwners[resp.vnode] = resp.instance

\* C9: after a /route for a user answered 200, every further /route for
\* that user before the cache entry expires answers with source cache and
\* the same instance, whatever register, unregister or heartbeat happened
\* in between: a 200 leaves the answered instance in the cache, only expiry
\* changes an entry, and a present entry is what /route answers.
C9_CachedRouteStable ==
  [][\A u \in RouteUsers :
       /\ (Route(u) /\ resp'.status = 200) => userCache'[u] = resp'.instance
       /\ (userCache[u] # None /\ userCache'[u] # userCache[u]) => ExpireUser(u)
       /\ (Route(u) /\ userCache[u] # None) =>
             /\ resp'.status = 200 /\ resp'.source = "cache"
             /\ resp'.instance = userCache[u]]_vars

\* a cache answer naming an instance that owns nothing in the directory any
\* more
C9_Witness ==
  /\ resp.op = "route" /\ resp.source = "cache"
  /\ \A v \in DOMAIN dirOwners : dirOwners[v] # resp.instance
  /\ dirOwners # EmptyMap

(***************************************************************************)
(* Properties of register requests interleaved in one coordinator          *)
(* (SpecRace).                                                             *)
(***************************************************************************)
Answered201(r) == reqs[r].pc = "done" /\ reqs[r].status = 201

Accepted(c) == conns[c].pc \in {"publishing", "established", "failed"}

\* C4: a presence node accepts a session (inserts the user into clients and
\* onlineUsers and issues the online publish) if and only if the token
\* yields a userId whose vnode is in the node's assignedVnodes; a user whose
\* vnode is not assigned is closed with 1008 'User does not belong to this
\* node', clients and onlineUsers stay as they were, and no event is ever
\* published by a node for a user whose vnode is not assigned to it.
C4_AcceptIffOwned ==
  [][/\ \A c \in 1 .. MaxConns, n \in Nodes, req \in Requests :
          WsConnect(c, n, req) =>
            LET token == extractToken(req)
                u == IF token.null \/ ~token.signed THEN None ELSE token.userId
                owned == u # None
                         /\ \E k \in DOMAIN assignedVnodes[n] :
                               assignedVnodes[n][k] = getUserVnodeOf(u, vnodeCount)
            IN  IF owned
                THEN /\ conns'[c].state = "open" /\ conns'[c].pc = "publishing"
                     /\ clients'[n][u] = c
                     /\ u \in onlineUsers'[n][getUserVnode(u)]
                ELSE /\ conns'[c].state = "closed" /\ conns'[c].closeCode = 1008
                     /\ conns'[c].pc = "rejected"
                     /\ u # None =>
                          conns'[c].reason = "User does not belong to this node"
                     /\ clients' = clients /\ onlineUsers' = onlineUsers
                     /\ bus' = bus
     /\ \A c \in 1 .. MaxConns :
          /\ PublishOnlineOk(c) =>
               bus' = Append(bus, [userId |-> conns[c].userId,
                                   action |-> "online", nodeId |-> conns[c].node])
     /\ bus' # bus =>
          /\ Len(bus') = Len(bus) + 1
          /\ LET e == bus'[Len(bus')]
             IN  \E k \in DOMAIN assignedVnodes[e.nodeId] :
                    assignedVnodes[e.nodeId][k] = getUserVnodeOf(e.userId, vnodeCount)]_vars

\* one connection was rejected for ownership by a node while the same user
\* was accepted, and announced online, by the node that owns the vnode
C4_Witness ==
  \E c, d \in 1 .. MaxConns :
     /\ conns[c].pc = "rejected"
     /\ conns[c].reason = "User does not belong to this node"
     /\ conns[d].pc = "established" /\ conns[d].userId = conns[c].userId
     /\ \E k \in DOMAIN bus : bus[k].userId = conns[d].userId
                               /\ bus[k].action = "online"

\* C10: a node never has two open accepted connections for the same user
\* (the earlier one is closed with 1001 before the new one is inserted).
C10_OneOpenSessionPerUser ==
  \A c, d \in 1 .. MaxConns :
     (c # d /\ Accepted(c) /\ Accepted(d)
        /\ conns[c].state = "open" /\ conns[d].state = "open"
        /\ conns[c].node = conns[d].node)
     => conns[c].userId # conns[d].userId

(***************************************************************************)
(* Properties of the sessions up to shutdown (SpecSession).                *)
(***************************************************************************)
\* C11: whenever the socket of a session that was inserted into clients and
\* onlineUsers closes (closed by the client, by the node after a failed
\* publish, or in a shutdown; before or after the online publish finished),
\* the user is no longer in clients and onlineUsers[v] of the node after the
\* step, an offline event is appended to the bus when the producer takes
\* it, and a closed connection stays closed.
C11_CloseRemovesSession ==
  [][\A c \in 1 .. MaxConns :
       /\ (Accepted(c) /\ conns[c].state \in {"open", "closing"}
             /\ conns'[c].state = "closed") =>
            LET n == conns[c].node
                u == conns[c].userId
            IN  /\ clients'[n][u] = 0
                /\ u \notin onlineUsers'[n][getUserVnode(u)]
                /\ WsClose(c, TRUE) =>
                     bus' = Append(bus, StatusEvent(u, "offline", n))
       /\ conns[c].state = "closed" => conns'[c].state = "closed"]_vars

\* C12: when the online publish of an open, inserted session fails, the
\* connection stays open, the user stays in clients and onlineUsers, the
\* handlers are installed and the welcome frame is sent.
C12_PublishFailureKeepsSession ==
  [][\A c \in 1 .. MaxConns :
       (PublishOnlineFail(c) /\ conns[c].state = "open") =>
          /\ conns'[c].state = "open"
          /\ conns'[c].pc = "established"
          /\ sent' = <<Frame(c, "welcome")>>
          /\ clients'[conns[c].node][conns[c].userId] = c
          /\ conns[c].userId \in
               onlineUsers'[conns[c].node][getUserVnode(conns[c].userId)]]_vars

(***************************************************************************)
(* Properties of the directory leases in time (SpecLease).                 *)
(***************************************************************************)
\* C13: an instance for which no directory write was made for at least
\* T_own owns no vnode in the directory owner map, whatever the other
\* instances do in that time.
C13_SilentOwnerExpires ==
  \A n \in Nodes :
    silent[n] >= T_own => \A v \in DOMAIN dirOwners : dirOwners[v] # n

\* the vnodes a request or heartbeat did not write keep their entry
KeptOutside(before, after, written) ==
  \A v \in DOMAIN before \ written : v \in DOMAIN after /\ after[v] = before[v]

\* C16: every owner or load write (a heartbeat, a register that answers
\* 201) is a merge-and-refresh: the entries of the vnode ids that are not
\* written keep their values, the written ones get the new value, and the
\* TTL of the whole key written is T_own right after the write.
C16_MergeAndRefresh ==
  [][/\ \A n \in Nodes :
          updateHeartbeat(n) =>
            /\ KeptOutside(dirOwners, dirOwners', Range(assignedVnodes[n]))
            /\ KeptOutside(dirLoads, dirLoads', Range(assignedVnodes[n]))
            /\ \A v \in Range(assignedVnodes[n]) :
                 /\ dirOwners'[v] = n
                 /\ dirLoads'[v] = Cardinality(onlineUsers[n][v])
            /\ ttl'.owners = T_own /\ ttl'.loads = T_own
     /\ \A i \in Nodes, w \in Weights :
          (Register(i, w) /\ resp'.status = 201) =>
            /\ KeptOutside(dirOwners, dirOwners', Range(resp'.assignedVnodes))
            /\ \A v \in Range(resp'.assignedVnodes) : dirOwners'[v] = i
            /\ ttl'.owners = T_own
            /\ dirLoads' = dirLoads /\ ttl'.loads = ttl.loads]_vars

\* a write was just made for one instance after time had passed since the
\* last write of another one: the key is at its full TTL again and the
\* other instance's entry is still there
C16_Witness ==
  /\ ttl.owners = T_own
  /\ \E n, m \in Nodes :
       /\ n # m /\ silent[n] = 0 /\ silent[m] >= 1
       /\ \E v \in DOMAIN dirOwners : dirOwners[v] = m
       /\ \E v \in DOMAIN dirOwners : dirOwners[v] = n

(***************************************************************************)
(* Properties of the heartbeat against the coordinator (Spec).             *)
(***************************************************************************)
\* C14: a presence node's heartbeat leaves the owner of every vnode in the
\* directory as it was: it neither replaces an owner nor creates an entry
\* (one that an unregister removed, for instance).
C14_HeartbeatKeepsOwners ==
  [][\A n \in Nodes :
       updateHeartbeat(n) =>
         \A v \in Vnodes : Lookup(dirOwners', v) = Lookup(dirOwners, v)]_vars

(***************************************************************************)
(* Properties of the presence nodes from process start (SpecPresence).     *)
(***************************************************************************)
\* the open sessions of node n whose user maps to vnode v
LiveSessions(n, v) ==
  {c \in 1 .. MaxConns :
     /\ Accepted(c) /\ conns[c].state = "open" /\ conns[c].node = n
     /\ getUserVnode(conns[c].userId) = v}

\* C15: the load a heartbeat writes for an assigned vnode differs by at most
\* one (a connect or disconnect in flight) from the number of live local
\* sessions whose user maps to that vnode.
C15_LoadTruth ==
  [][\A n \in Nodes :
       updateHeartbeat(n) =>
         \A v \in Range(assignedVnodes[n]) :
           LET d == dirLoads'[v] - Cardinality(LiveSessions(n, v))
           IN  d \in {-1, 0, 1}]_vars

\* C17: a presence node handles a client connection only once its first
\* heartbeat has been written to the directory.
C17_HeartbeatBeforeAccept ==
  [][\A c \in 1 .. MaxConns :
       (conns[c].state = "none" /\ conns'[c].state # "none") =>
          phase[conns'[c].node] = "running"]_vars

(***************************************************************************)
(* Properties of the bus consumers (SpecBus).                              *)
(***************************************************************************)
\* the record the consumer of node n is handed next
NextRecord(n) == bus[offset[n] + 1]

\* C18: a node that is handed an event carrying its own nodeId leaves
\* clients and onlineUsers as they are and sends no status_update frame.
C18_OwnEventIgnored ==
  [][\A n \in Nodes :
       (eachMessage(n) /\ NextRecord(n).nodeId = n) =>
          /\ clients' = clients
          /\ onlineUsers' = onlineUsers
          /\ sent' = <<>>]_vars

\* a node has been handed the online event of a session of its own that is
\* still open, and no frame went out
C18_Witness ==
  \E n \in Nodes :
     /\ offset[n] >= 1
     /\ bus[offset[n]].nodeId = n /\ bus[offset[n]].action = "online"
     /\ clients[n][bus[offset[n]].userId] # 0
     /\ conns[clients[n][bus[offset[n]].userId]].state = "open"
     /\ bus[offset[n]].userId \in
          onlineUsers[n][getUserVnode(bus[offset[n]].userId)]
     /\ sent = <<>>

\* C19: onlineUsers of a node has exactly one set per assigned vnode and
\* the set of vnode v holds only users whose vnode is v; an event for a user
\* whose vnode is not assigned to the node changes nothing, and an online
\* event of another node for a user whose vnode is assigned puts the user
\* into the set by the time the delivery is handled.
C19_OnlineUsersByVnode ==
  /\ [](\A n \in Nodes :
          /\ DOMAIN onlineUsers[n] = {assignedVnodes[n][k] : k \in DOMAIN assignedVnodes[n]}
          /\ \A v \in DOMAIN onlineUsers[n] :
               \A u \in onlineUsers[n][v] : getUserVnodeOf(u, vnodeCount) = v)
  /\ [][\A n \in Nodes :
          eachMessage(n) =>
            LET e == NextRecord(n)
                v == getUserVnodeOf(e.userId, vnodeCount)
                mine == \E k \in DOMAIN assignedVnodes[n] : assignedVnodes[n][k] = v
            IN  /\ ~mine => /\ onlineUsers' = onlineUsers
                            /\ clients' = clients /\ sent' = <<>>
                /\ (mine /\ e.nodeId # n /\ e.action = "online") =>
                      e.userId \in onlineUsers'[n][v]]_vars

\* a node holds a user in the set of an assigned vnode although no
\* connection was ever made to it: the user came from another node's event
C19_Witness ==
  \E n \in Nodes, u \in Users :
     /\ \E v \in DOMAIN onlineUsers[n] : u \in onlineUsers[n][v]
     /\ \A c \in 1 .. MaxConns : conns[c].node # n
     /\ \E k \in 1 .. offset[n] :
          bus[k].userId = u /\ bus[k].action = "online" /\ bus[k].nodeId # n

\* the records a topic can carry: who, what, and the publishing node
Events ==
  {StatusEvent(u, a, m) : u \in Users, a \in {"online", "offline"}, m \in Nodes}

\* the sequences of records of other nodes that node n can be handed
EventSeqs(n) ==
  UNION {[1 .. k -> {e \in Events : e.nodeId # n}] : k \in 0 .. MaxReplay}

\* the values onlineUsers of node n can take
OnlineStates(n) ==
  {online \in [{assignedVnodes[n][k] : k \in DOMAIN assignedVnodes[n]}
                 -> SUBSET Users] :
     \A v \in DOMAIN online : \A u \in online[v] : getUserVnode(u) = v}

\* onlineUsers of node n after its consumer has handled seq record by record
RECURSIVE Replay(_, _, _)
Replay(n, online, seq) ==
  IF seq = <<>> THEN online
  ELSE Replay(n, consume(n, online, Head(seq)), Tail(seq))

\* delivering a sequence of records a second time, as a whole or record by
\* record, ends in the onlineUsers of the first delivery
ReplayIdempotent ==
  \A n \in Nodes : \A online \in OnlineStates(n) :
    /\ \A seq \in EventSeqs(n) :
         Replay(n, Replay(n, online, seq), seq) = Replay(n, online, seq)
    /\ \A e \in Events :
         consume(n, consume(n, online, e), e) = consume(n, online, e)

\* C20: handling an online event for a user already in onlineUsers[v], or
\* an offline event for a user not in it, leaves onlineUsers unchanged, and
\* replaying a sequence of online/offline events yields the onlineUsers of
\* applying it once.
C20_ApplyIdempotent ==
  [][\A n \in Nodes :
       eachMessage(n) =>
         LET e == NextRecord(n)
             v == getUserVnodeOf(e.userId, vnodeCount)
             present == v \in DOMAIN onlineUsers[n] /\ e.userId \in onlineUsers[n][v]
         IN  /\ ReplayIdempotent
             /\ (e.action = "online" /\ present) => onlineUsers' = onlineUsers
             /\ (e.action = "offline" /\ ~present) => onlineUsers' = onlineUsers
             /\ onlineUsers'[n] = consume(n, consume(n, onlineUsers[n], e), e)]_vars

\* a record is about to be delivered again: the node already holds the user
\* from an earlier delivery of the online event that its consumer, set back,
\* is handed next
C20_Witness ==
  \E n \in Nodes :
     /\ offset[n] < Len(bus)
     /\ NextRecord(n).action = "online" /\ NextRecord(n).nodeId # n
     /\ \A c \in 1 .. MaxConns : conns[c].node # n
     /\ \E v \in DOMAIN onlineUsers[n] : NextRecord(n).userId \in onlineUsers[n][v]

\* the positions of the topic that hold an event of another node for user u
ForeignEventsOf(n, u) ==
  {k \in DOMAIN bus : bus[k].userId = u /\ bus[k].nodeId # n}

\* C21: at a node that has the vnode of user u and never had a connection
\* of u, once the consumer has handled every record of the topic in order,
\* u is in onlineUsers[userVnode(u)] exactly when the last event of another
\* node for u was online.
C21_LastEventWins ==
  \A n \in Nodes, u \in Users :
    (/\ getUserVnodeOf(u, vnodeCount) \in DOMAIN onlineUsers[n]
     /\ \A c \in 1 .. MaxConns : ~(conns[c].node = n /\ conns[c].userId = u)
     /\ offset[n] = Len(bus)
     /\ ForeignEventsOf(n, u) # {}) =>
       LET last == CHOOSE k \in ForeignEventsOf(n, u) :
                     \A j \in ForeignEventsOf(n, u) : j <= k
       IN  (u \in onlineUsers[n][getUserVnodeOf(u, vnodeCount)])
             <=> (bus[last].action = "online")

\* a node has handled the online and then the offline event of a session
\* another node had for a user of a shared vnode, and no longer holds the user
C21_Witness ==
  \E n \in Nodes, u \in Users :
     /\ getUserVnodeOf(u, vnodeCount) \in DOMAIN onlineUsers[n]
     /\ \A c \in 1 .. MaxConns : ~(conns[c].node = n /\ conns[c].userId = u)
     /\ offset[n] = Len(bus) /\ Len(bus) >= 2
     /\ bus[Len(bus) - 1] = StatusEvent(u, "online", bus[Len(bus)].nodeId)
     /\ bus[Len(bus)] = StatusEvent(u, "offline", bus[Len(bus)].nodeId)
     /\ bus[Len(bus)].nodeId # n
     /\ u \notin onlineUsers[n][getUserVnodeOf(u, vnodeCount)]

(***************************************************************************)
(* Properties of the coordinator's error responses (SpecCoord).            *)
(***************************************************************************)
\* the state a rejected coordinator request must leave alone
DirectoryState == <<dirOwners, userCache, ring>>

\* C22: a register, unregister or route request that is answered 400, 404
\* or 409 leaves the directory owner map, the user -> instance cache and the
\* coordinator's ring unchanged; the 4xx answers are 400 for a missing
\* instanceId or userId, 404 for an unregister of an instance without vnodes
\* or a route without owner, and 409 for a register without a free vnode.
C22_RejectedRequestKeepsState ==
  [][/\ \A i \in Nodes \cup {None}, w \in Weights :
          Register(i, w) =>
            /\ resp'.status \in {400, 409} => DirectoryState' = DirectoryState
            /\ resp'.status = 400 <=> i = None
            /\ resp'.status = 409 <=>
                 (i # None /\ \A v \in Vnodes : Lookup(dirOwners, v) # None)
     /\ \A i \in Nodes \cup {None} :
          Unregister(i) =>
            /\ resp'.status \in {400, 404} => DirectoryState' = DirectoryState
            /\ resp'.status = 400 <=> i = None
            /\ resp'.status = 404 <=>
                 (i # None /\ \A v \in Vnodes : Lookup(dirOwners, v) # i)
     /\ \A u \in RouteUsers \cup {None} :
          Route(u) =>
            /\ resp'.status \in {400, 404} => DirectoryState' = DirectoryState
            /\ resp'.status = 400 <=> u = None
            /\ resp'.status = 404 <=>
                 (/\ u # None /\ userCache[u] = None
                  /\ Lookup(ring, getUserVnodeOf(u, vnodeCount)) = None
                  /\ Lookup(dirOwners, getUserVnodeOf(u, vnodeCount)) = None)]_vars

\* a register was just answered 409: every vnode has an owner, the ring of
\* the coordinator holds mappings and a user is cached
C22_Witness ==
  /\ resp.op = "register" /\ resp.status = 409
  /\ \A v \in Vnodes : Lookup(dirOwners, v) # None
  /\ ring # EmptyMap
  /\ \E u \in RouteUsers : userCache[u] # None

(***************************************************************************)
(* Properties of the presence node's shutdown (SpecStop).                  *)
(***************************************************************************)
\* the steps of the graceful shutdown in their order, as the phase each one
\* leaves the node in
ShutdownOrder ==
  <<"timerCleared", "sessionsClosing", "stopping", "consumerDown",
    "producerDown", "redisClosed", "stopped">>

\* the phase a node must be in before it enters phase p of the shutdown
PhaseBefore(p) ==
  IF p = ShutdownOrder[1] THEN "running"
  ELSE ShutdownOrder[(CHOOSE k \in 2 .. Len(ShutdownOrder) : ShutdownOrder[k] = p) - 1]

\* C23: on SIGINT / SIGTERM a presence node stops the heartbeat timer,
\* closes every live session with code 1001, stops the acceptor,
\* disconnects the bus consumer, then the bus producer, then closes the
\* directory connection, in this order: a node enters each phase of the
\* shutdown only from the one before it, so its process ends only after
\* all of them; entering "sessionsClosing" leaves no session of the node
\* open and gives the ones it closes code 1001; no connection is accepted
\* and no heartbeat is started once the shutdown has begun.
C23_ShutdownOrder ==
  [][\A n \in Nodes :
       /\ (phase'[n] # phase[n] /\ phase'[n] \notin {"listening", "running"}) =>
             phase[n] = PhaseBefore(phase'[n])
       /\ (phase'[n] # phase[n] /\ phase'[n] = "sessionsClosing") =>
             \A c \in DOMAIN conns :
               (conns[c].node = n /\ conns[c].state = "open") =>
                 (conns'[c].state = "closing" /\ conns'[c].closeCode = 1001)
       /\ phase[n] \notin {"init", "listening", "running"} =>
             /\ ~ updateHeartbeat(n)
             /\ \A c \in DOMAIN conns :
                  (conns[c].state = "none" /\ conns'[c].state # "none") =>
                    conns'[c].node # n]_vars

(***************************************************************************)
(* Properties of the token extraction (SpecAuth).                          *)
(***************************************************************************)
\* the token of an 'Authorization: Bearer <t>' header, if the request has one
BearerToken(req) ==
  IF Len(req.authorization) = 2 /\ req.authorization[1] = "Bearer"
  THEN req.authorization[2] ELSE NullToken

\* the first of header, query parameter and cookie that carries a token
ByPrecedence(req) ==
  IF ~BearerToken(req).null THEN BearerToken(req)
  ELSE IF ~req.urlToken.null THEN req.urlToken
  ELSE IF ~req.cookieToken.null THEN req.cookieToken
  ELSE NullToken

\* C24: the token a request is authenticated with is the one of its
\* 'Authorization: Bearer <t>' header when present, otherwise the one of the
\* token query parameter when present, otherwise the token cookie, otherwise
\* none: extractToken returns exactly that token, and the connection
\* handler answers as that token demands (no token, invalid token, or the
\* userId of that token) whatever the lower-precedence sources carry.
C24_TokenPrecedence ==
  [][\A c \in 1 .. MaxConns, n \in Nodes :
       (conns[c].state = "none" /\ conns'[c].node = n) =>
         \A req \in AuthRequests :
           WsConnect(c, n, req) =>
             LET t == ByPrecedence(req)
             IN  /\ extractToken(req) = t
                 /\ t.null => conns'[c].reason = "No token provided"
                 /\ (~t.null /\ ~t.signed) => conns'[c].reason = "Invalid token"
                 /\ (~t.null /\ t.signed) => conns'[c].userId = t.userId]_vars

\* one connection was rejected for an invalid token, one for a missing
\* token, and one was accepted for the user of its token
C24_Witness ==
  \E c, d \in 1 .. MaxConns :
     /\ conns[c].reason \in {"Invalid token", "No token provided"}
     /\ conns[d].state = "open" /\ conns[d].userId # None

(***************************************************************************)
(* Properties of the hash (SpecCoord).                                     *)
(***************************************************************************)
\* the number that four hex digits of a prefix, from position k on, denote
Hex4(digits, k) ==
  digits[k] * 4096 + digits[k + 1] * 256 + digits[k + 2] * 16 + digits[k + 3]

\* H(userId) mod V, computed from the two 16-bit halves of the 32-bit prefix
HashModV(userId, V) ==
  (((Hex4(md5hex8[userId], 1) % V) * (65536 % V)) + (Hex4(md5hex8[userId], 5) % V)) % V

\* C25: for every userId and every vnode count V > 0, userVnode(userId) is
\* H(userId) mod V, a value of 0 .. V-1 that depends on userId and V alone:
\* every /route that computes it reports the same vnode for the user,
\* whatever register, unregister, route and restart have made of the ring's
\* vnode -> instance mappings.
C25_UserVnodeStable ==
  /\ [](\A u \in Users : \A V \in 1 .. (2 * vnodeCount) :
          /\ getUserVnodeOf(u, V) \in 0 .. (V - 1)
          /\ getUserVnodeOf(u, V) = HashModV(u, V))
  /\ [][\A u \in RouteUsers :
          (Route(u) /\ resp'.status = 200 /\ resp'.source = "hash") =>
             /\ resp'.vnode = HashModV(u, vnodeCount)
             /\ resp'.vnode \in Vnodes]_vars

\* a route was answered from the hash while the ring maps the user's vnode
\* to an instance and another vnode to another instance
C25_Witness ==
  /\ resp.op = "route" /\ resp.status = 200 /\ resp.source = "hash"
  /\ Lookup(ring, resp.vnode) = resp.instance
  /\ \E v \in Vnodes : Lookup(ring, v) \notin {None, resp.instance}

(***************************************************************************)
(* Properties of the directory under racing registers (SpecRace).          *)
(***************************************************************************)
\* requests r and q both read the owner map before either of them wrote
ReadBeforeWrites(r, q) == r \notin reqs[q].after /\ q \notin reqs[r].after

\* C26: when two register requests both read the owner map before either
\* writes, the last writer wins for each contested vnode: each write makes
\* its request's instance the owner of every vnode of its list, a vnode
\* written by the other request included, and touches no other entry;
\* nothing but such a write changes the owner map, so the directory ends
\* with the later writer as the one owner; and each of the two 201
\* responses lists the vnodes its request picked, the contested one
\* included.
C26_LastWriterWins ==
  [][/\ \A r \in 1 .. MaxReqs :
          RegWrite(r) =>
            \A v \in Vnodes :
               Lookup(dirOwners', v) =
                 IF v \in Range(reqs[r].ids) THEN reqs[r].instanceId
                 ELSE Lookup(dirOwners, v)
     /\ dirOwners' # dirOwners => \E r \in 1 .. MaxReqs : RegWrite(r)
     /\ \A r \in 1 .. MaxReqs :
          RegRespond(r) =>
            /\ resp'.status = 201 /\ resp'.instanceId = reqs[r].instanceId
            /\ resp'.assignedVnodes = reqs[r].ids
            /\ \A q \in 1 .. MaxReqs :
                 (q # r /\ ReadBeforeWrites(r, q) /\ reqs[q].pc \in {"written", "done"}
                    /\ reqs[q].currentVnodeMap = reqs[r].currentVnodeMap
                    /\ reqs[q].weight = reqs[r].weight)
                 => resp'.assignedVnodes = reqs[q].ids]_vars

\* two registers of different instances read before either wrote, both were
\* answered 201 with a common vnode, and the directory names one of the two
\* as its owner
C26_Witness ==
  \E r, q \in 1 .. MaxReqs :
     /\ r # q /\ Answered201(r) /\ Answered201(q)
     /\ reqs[r].instanceId # reqs[q].instanceId
     /\ ReadBeforeWrites(r, q)
     /\ \E v \in Range(reqs[r].ids) \cap Range(reqs[q].ids) :
           Lookup(dirOwners, v) = reqs[q].instanceId

(***************************************************************************)
(* Properties of the frames of a session (SpecFrame).                      *)
(***************************************************************************)
\* C27: on an established, open session a frame of type ping produces
\* exactly one pong reply on the same connection; a frame of any other type,
\* of no type, or one that is not valid JSON produces no reply; in each
\* case clients, onlineUsers and the bus stay as they were and the
\* connection stays open.
C27_PingPong ==
  [][\A c \in 1 .. MaxSessions, frame \in ClientFrames :
       (WsMessage(c, frame) /\ conns[c].state = "open") =>
          /\ sent' = IF frame = JsonObject("ping")
                     THEN <<[to |-> c, type |-> "pong"]>> ELSE <<>>
          /\ clients' = clients /\ onlineUsers' = onlineUsers /\ bus' = bus
          /\ conns' = conns /\ conns'[c].state = "open"]_vars

\* a pong has just been sent on an open, established session
C27_Witness ==
  \E c \in 1 .. MaxSessions :
     /\ sent = <<[to |-> c, type |-> "pong"]>>
     /\ conns[c].state = "open" /\ conns[c].pc = "established"
     /\ clients[conns[c].node][conns[c].userId] = c

(***************************************************************************)
(* Properties of the local presence state (SpecNode).                      *)
(***************************************************************************)
\* C28: in every reachable state of a presence node, each accepted
\* connection that is still open for user u implies that clients[u] is
\* defined and u is in onlineUsers[userVnode(u)].
C28_OpenSessionOnline ==
  \A c \in 1 .. MaxConns :
     (Accepted(c) /\ conns[c].state = "open") =>
        /\ clients[conns[c].node][conns[c].userId] # 0
        /\ conns[c].userId \in
             onlineUsers[conns[c].node][getUserVnode(conns[c].userId)]

(***************************************************************************)
(* Properties of unregister under interleaving (SpecUnreg).                *)
(***************************************************************************)
\* C29: for every interleaving of /nodes/unregister for instance N with
\* register requests, heartbeats and TTL expiry, the deletion of unregister
\* removes from the directory only entries whose owner is N at the moment
\* of the deletion; entries owned by other instances stay as they are.
C29_UnregisterDeletesOwnOnly ==
  [][\A r \in 1 .. MaxUnreg :
       UnregDelete(r) =>
         \A v \in Vnodes :
            Lookup(dirOwners, v) # reqs[r].instanceId =>
               Lookup(dirOwners', v) = Lookup(dirOwners, v)]_vars

(***************************************************************************)
(* Properties of hash-sourced routes (SpecCoord).                          *)
(***************************************************************************)
\* C30: whenever /route responds with source 'hash' and instance N, N is
\* the owner that the directory records for userVnode(userId) at the time
\* of the response; so after a successful unregister of N a hash-sourced
\* route does not name N until N owns that vnode in the directory again.
C30_HashRouteNamesDirectoryOwner ==
  [][\A u \in RouteUsers :
       (Route(u) /\ resp'.status = 200 /\ resp'.source = "hash") =>
          Lookup(dirOwners', getUserVnode(u)) = resp'.instance]_vars

(***************************************************************************)
(* Properties of repeated registration (SpecCoord).                        *)
(***************************************************************************)
\* the vnodes the directory records for an instance
OwnedBy(owners, instanceId) == {v \in DOMAIN owners : owners[v] = instanceId}

\* C31: registering an instanceId that already owns vnodes in the directory
\* does not assign it additional vnodes; so a register with weight w of an
\* instance that owns at most max(1, floor(V*w/100)) vnodes leaves it with
\* at most that many, and a sequence of registers with one weight never
\* takes it beyond that number.
C31_ReRegisterAddsNothing ==
  [][\A i \in Nodes, w \in Weights :
       Register(i, w) =>
         /\ OwnedBy(dirOwners, i) # {} =>
               OwnedBy(dirOwners', i) = OwnedBy(dirOwners, i)
         /\ Cardinality(OwnedBy(dirOwners, i)) <= desiredVnodes(w) =>
               Cardinality(OwnedBy(dirOwners', i)) <= desiredVnodes(w)]_vars

(***************************************************************************)
(* Properties of the client SDK (SpecSdk).                                 *)
(***************************************************************************)
\* the sockets of the client that are connecting or open
LiveSocks(c) == {s \in 1 .. MaxSocks : c.socks[s] \in {"CONNECTING", "OPEN"}}

\* C32: after disconnect() is called, and until the application calls
\* connect() again, the client makes no further connection attempt (no
\* /route query is issued, no WebSocket is created) and its status stays
\* 'disconnected', whatever the order of the socket's close event and of a
\* connect() still in flight.
C32_DisconnectStops ==
  [][(sdk.stopped /\ sdk'.stopped) =>
        /\ sdk'.pending <= sdk.pending
        /\ \A s \in 1 .. MaxSocks : sdk.socks[s] = "none" => sdk'.socks[s] = "none"
        /\ sdk'.status = "disconnected"]_vars

\* C33: for any sequence of connect(), disconnect(), timer and socket
\* events, one client has at most one WebSocket that is connecting or open
\* at a time, and its status is 'connected' only while the socket it
\* references is open.
C33_OneLiveSocket ==
  /\ Cardinality(LiveSocks(sdk)) <= 1
  /\ sdk.status = "connected" => (sdk.ws # 0 /\ sdk.socks[sdk.ws] = "OPEN")

====
